---- MODULE Spec2Model ----
(***************************************************************************)
(* Height-field generation pipeline of terrain (src/src/generation.py):    *)
(* a generation strategy (RandomStrategy, LinearFaultStrategy) builds the  *)
(* raw field, __calc_percentiles turns it into percentiles, __calc_groups  *)
(* into group indices and __smooth applies the erosion rounds.             *)
(*                                                                         *)
(* Numbers.  Every cell of a field is a rational heightmap[c] / scale: the *)
(* field holds the numerators and `scale` the common denominator.  Random  *)
(* draws u/Res (u in 0..Res-1) stand for the doubles of [0,1); line        *)
(* parameters are exact fractions <<num, den>>.  The floating point        *)
(* operations of the code are modelled by exact rational arithmetic.       *)
(***************************************************************************)
EXTENDS Integers, Sequences, FiniteSets

VARIABLES
    rng,        \* numpy's process-wide generator (np.random): seeded?, seed, position
    halfEven,   \* round() of the interpreter: ties to even (Python 3) or away from 0 (Python 2)
    pc,         \* where the strategy instance is in construct / generate()
    config,     \* self.config (with self.width, self.height)
    hm,         \* local hm of LinearFaultStrategy._generate_raw (gone when it raises)
    k,          \* completed iterations of the linear fault loop
    straight,   \* x1, x2 in the frame of a __random_straight call that raised
    heightmap,  \* self.heightmap (numerators)
    scale,      \* common denominator of self.heightmap
    m,          \* completed erosion rounds
    error,      \* the exception generate() raised, "none" if none
    hist,       \* history: the field after each completed stage of this run
    returned    \* history: the earlier runs of this process, <<config, outcome>>

vars == <<rng, halfEven, pc, config, hm, k, straight, heightmap, scale, m, error, hist, returned>>

\* ---------------------------------------------------------------- bounds
MaxCells == 4
Res == 2
MaxSeed == 1
MaxIterations == 3
MaxErosion == 2
MaxRuns == 2
MaxPos == 6

\* ---------------------------------------------------------------- configs
Absent == [has |-> FALSE, none |-> FALSE, val |-> 0]
Given(v) == [has |-> TRUE, none |-> FALSE, val |-> v]
AbsentList == [has |-> FALSE, none |-> FALSE, val |-> << >>]
NoneList == [has |-> TRUE, none |-> TRUE, val |-> << >>]

Shapes == {sh \in (1..MaxCells) \X (1..MaxCells) : sh[1] * sh[2] <= MaxCells}

\* ascending threshold tables, each threshold a fraction <<num, den>>
ThresholdLists ==
    { <<<<1, 2>>>>,
      <<<<3, 10>>, <<6, 10>>, <<1, 1>>>> }

SeedOptions == {Absent} \cup {Given(s) : s \in 0..MaxSeed}
\* a run of MaxErosion rounds passes through the fields of every smaller count
ErosionOptions == {Absent, Given(0), Given(MaxErosion)}

MkConfig(sh, st, sd, it, th, er) ==
    [width |-> sh[1], height |-> sh[2], strategy |-> st, seed |-> sd,
     iterations |-> it, thresholds |-> th, erosion |-> er]

ValidThresholds == {Given(t) : t \in ThresholdLists}

\* the configs with every required parameter (the empty threshold table and
\* zero erosion rounds go with the random strategy only)
ValidConfigs ==
    {MkConfig(sh, "random", sd, Absent, th, er) :
        sh \in Shapes, sd \in SeedOptions, th \in ValidThresholds \cup {Given(<< >>)},
        er \in ErosionOptions}
    \cup
    {MkConfig(sh, "linear-fault", sd, Given(n), th, er) :
        sh \in Shapes, sd \in SeedOptions, n \in 0..MaxIterations,
        th \in ValidThresholds, er \in {Absent, Given(MaxErosion)}}

\* the configs that lack 'thresholds' (or hold None for it) or 'iterations'
DefectiveConfigs ==
    {MkConfig(sh, "random", Absent, Absent, th, Absent) :
        sh \in Shapes, th \in {AbsentList, NoneList}}
    \cup
    {MkConfig(sh, "linear-fault", Absent, it, th, Absent) :
        sh \in Shapes, it \in {Absent, Given(0)}, th \in {AbsentList, NoneList}}
    \cup
    {MkConfig(sh, "linear-fault", Absent, Absent, th, Absent) :
        sh \in Shapes, th \in ValidThresholds}

\* seeded runs on the 5 x 5 field of the erosion boundary scenario
CornerShape == <<5, 5>>

CornerConfigs ==
    {MkConfig(CornerShape, "random", Given(sd), Absent, th, Given(MaxErosion)) :
        sd \in 0..MaxSeed, th \in ValidThresholds}
    \cup
    {MkConfig(CornerShape, "linear-fault", Given(sd), Given(n), th, Given(MaxErosion)) :
        sd \in 0..MaxSeed, n \in 1..MaxIterations, th \in ValidThresholds}

Configs == ValidConfigs \cup DefectiveConfigs \cup CornerConfigs

\* the seeded configs of the runs that share one process
RunConfigs ==
    {cfg \in ValidConfigs :
        /\ cfg.seed.has
        /\ cfg.width = 2 /\ cfg.height = 2
        /\ Len(cfg.thresholds.val) = 1
        /\ cfg.erosion \in {Absent, Given(MaxErosion)}}

\* ---------------------------------------------------------------- fields
Cells(w, h) == (0..(w - 1)) \X (0..(h - 1))

\* position of a cell in np.ndenumerate order (row-major)
Index(c, h) == c[1] * h + c[2]

CellAt(i, h) == <<i \div h, i % h>>

Zeros(w, h) == [c \in Cells(w, h) |-> 0]

NoField == [c \in {} |-> 0]

\* ---------------------------------------------------------------- np.random
\* Stand-in for the Mersenne Twister stream of a seed: the p-th double of [0,1)
\* (as a numerator over Res) and the p-th randint(0,4).
Gen(seed, p) == ((seed + 2) * (p + 1) * (p + 3) + seed * p + (p \div 2)) % Res

GenInt(seed, p) == ((seed + 1) * (p + 2) + (p \div 3)) % 4

\* the possible results of n consecutive random() draws from the generator
Draws(n) ==
    IF rng.seeded
    THEN {[i \in 1..n |-> Gen(rng.seed, rng.pos + i - 1)]}
    ELSE [1..n -> 0..(Res - 1)]

\* the possible results of randint(0,4) after `skip` further draws
IntDraws(skip) ==
    IF rng.seeded THEN {GenInt(rng.seed, rng.pos + skip)} ELSE 0..3

Advance(n) ==
    IF rng.seeded THEN [rng EXCEPT !.pos = @ + n] ELSE rng

Seeded(s) == [seeded |-> TRUE, seed |-> s, pos |-> 0]

\* ---------------------------------------------------------------- state
\* no call of __random_straight has failed: its locals are gone
NoStraight == [x1 |-> 0, x2 |-> 1]

Init ==
    /\ rng = [seeded |-> FALSE, seed |-> 0, pos |-> 0]
    /\ halfEven \in BOOLEAN
    /\ pc = "new"
    /\ config = MkConfig(<<1, 1>>, "random", Absent, Absent, AbsentList, Absent)
    /\ hm = NoField
    /\ k = 0
    /\ straight = NoStraight
    /\ heightmap = NoField
    /\ scale = 1
    /\ m = 0
    /\ error = "none"
    /\ hist = << >>
    /\ returned = << >>

\* GenerationStrategy.__init__
New(cfg) ==
    /\ pc = "new"
    /\ config' = cfg
    /\ rng' = IF cfg.seed.has THEN Seeded(cfg.seed.val) ELSE rng
    /\ pc' = "constructed"
    /\ UNCHANGED <<halfEven, hm, k, straight, heightmap, scale, m, error, hist, returned>>

Construct ==
    /\ pc = "new"
    /\ \E cfg \in Configs : New(cfg)

\* RandomStrategy._generate_raw
RandomGenerateRaw ==
    /\ pc = "constructed"
    /\ config.strategy = "random"
    /\ \E d \in Draws(config.width * config.height) :
          heightmap' = [c \in Cells(config.width, config.height) |->
                            d[Index(c, config.height) + 1]]
    /\ scale' = Res
    /\ rng' = Advance(config.width * config.height)
    /\ pc' = "raw"
    /\ hist' = <<heightmap'>>
    /\ UNCHANGED <<halfEven, config, hm, k, straight, m, error, returned>>

\* ---------------------------------------------------------------- linear fault
\* fractions <<num, den>> with den > 0
Norm(n, d) == IF d < 0 THEN <<-n, -d>> ELSE <<n, d>>

\* LinearFaultStrategy.__random_straight, for the drawn points (numerators over
\* Res) with x1 # x2: the line (a, b), a = (y1-y2)/(x1-x2), b = y1 - a*x1
RandomStraight(p) ==
    LET a == Norm(p.y1 - p.y2, p.x1 - p.x2)
        b == <<p.y1 * a[2] - a[1] * p.x1, Res * a[2]>>
    IN  <<a, b>>

\* LinearFaultStrategy.__get_y: s[0]*x + s[1]
GetY(s, x) ==
    LET a == s[1]
        b == s[2]
    IN  <<a[1] * x * b[2] + b[1] * a[2], a[2] * b[2]>>

\* [o.lt, o.le, o.gt, o.ge][r] applied to (y, j), y a fraction, j an integer
Comp(r, y, j) ==
    CASE r = 0 -> y[1] < j * y[2]
      [] r = 1 -> y[1] <= j * y[2]
      [] r = 2 -> y[1] > j * y[2]
      [] OTHER -> y[1] >= j * y[2]

\* mutant: the increment is 2
RaiseTwice(curr) == curr + 2

\* hm[i][j] = curr+1
Raise(curr) == curr + 1

\* one pass of the loops over i and j for the line s and the comparison r
FaultPass(field, s, r) ==
    [c \in DOMAIN field |->
        IF Comp(r, GetY(s, c[1]), c[2]) THEN Raise(field[c]) ELSE field[c]]

Fail(e) ==
    /\ pc' = "failed"
    /\ error' = e

\* LinearFaultStrategy._generate_raw up to the loop
FaultStart ==
    /\ pc = "constructed"
    /\ config.strategy = "linear-fault"
    /\ IF ~config.iterations.has
       THEN /\ Fail("Exception: Config parameter 'iterations' missing")
            /\ hm' = hm
       ELSE /\ hm' = Zeros(config.width, config.height)
            /\ pc' = "fault"
            /\ error' = error
    /\ k' = 0
    /\ UNCHANGED <<rng, halfEven, config, straight, heightmap, scale, m, hist, returned>>

\* one iteration of the loop `for k in range(n)`
FaultIteration ==
    /\ pc = "fault"
    /\ k < config.iterations.val
    /\ \E d \in Draws(4) :
          LET p == [x1 |-> d[1] * config.width, y1 |-> d[2] * config.height,
                    x2 |-> d[3] * config.width, y2 |-> d[4] * config.height]
          IN  IF p.x1 = p.x2
              THEN \* the name __MODIFIER is mangled and bound nowhere
                   /\ Fail("NameError: _LinearFaultStrategy__MODIFIER")
                   /\ straight' = [x1 |-> p.x1, x2 |-> p.x2]
                   /\ rng' = Advance(4)
                   /\ hm' = NoField
                   /\ k' = 0
              ELSE \E r \in IntDraws(4) :
                   /\ hm' = FaultPass(hm, RandomStraight(p), r)
                   /\ straight' = NoStraight
                   /\ k' = k + 1
                   /\ rng' = Advance(5)
                   /\ UNCHANGED <<pc, error>>
    /\ UNCHANGED <<halfEven, config, heightmap, scale, m, hist, returned>>

\* self.heightmap = hm; return self
FaultReturn ==
    /\ pc = "fault"
    /\ k = config.iterations.val
    /\ heightmap' = hm
    /\ scale' = 1
    /\ pc' = "raw"
    /\ hist' = <<hm>>
    /\ UNCHANGED <<rng, halfEven, config, hm, k, straight, m, error, returned>>

\* ---------------------------------------------------------------- percentiles
\* mutant: the sort is descending
RECURSIVE InsertSortedDesc(_, _, _)
InsertSortedDesc(srtd, c, field) ==
    IF srtd = << >> THEN <<c>>
    ELSE IF field[Head(srtd)] >= field[c]
         THEN <<Head(srtd)>> \o InsertSortedDesc(Tail(srtd), c, field)
         ELSE <<c>> \o srtd

\* sorted(..., key = value) is stable: a cell goes behind every cell of the list
\* whose value is not larger
RECURSIVE InsertSorted(_, _, _)
InsertSorted(srtd, c, field) ==
    IF srtd = << >> THEN <<c>>
    ELSE IF field[Head(srtd)] <= field[c]
         THEN <<Head(srtd)>> \o InsertSorted(Tail(srtd), c, field)
         ELSE <<c>> \o srtd

\* the cells in np.ndenumerate order from position i on, sorted into srtd
RECURSIVE SortFrom(_, _, _, _, _)
SortFrom(srtd, i, field, w, h) ==
    IF i >= w * h THEN srtd
    ELSE SortFrom(InsertSorted(srtd, CellAt(i, h), field), i + 1, field, w, h)

Sorted(field, w, h) == SortFrom(<< >>, 0, field, w, h)

\* mutant: no tie rule, every entry keeps (k+1.0)/len
CurrPercentileNoTie(pos, v, hasLast, last_percentile, last_value) == pos

\* curr_percentile of the entry at (1-based) position pos, as a numerator over
\* the number of cells: (k+1.0)/len unless the value repeats the last one
CurrPercentile(pos, v, hasLast, last_percentile, last_value) ==
    IF hasLast /\ v = last_value THEN last_percentile ELSE pos

RECURSIVE PercentileLoop(_, _, _, _, _, _, _)
PercentileLoop(srtd, pos, hasLast, last_percentile, last_value, field, out) ==
    IF pos > Len(srtd) THEN out
    ELSE LET c == srtd[pos]
             v == field[c]
             curr == CurrPercentile(pos, v, hasLast, last_percentile, last_value)
         IN  PercentileLoop(srtd, pos + 1, TRUE, curr, v, field,
                            [out EXCEPT ![c] = curr])

\* GenerationStrategy.__calc_percentiles
CalcPercentiles ==
    /\ pc = "raw"
    /\ heightmap' = PercentileLoop(Sorted(heightmap, config.width, config.height),
                                   1, FALSE, 0, 0, heightmap, heightmap)
    /\ scale' = config.width * config.height
    /\ pc' = "percentiles"
    /\ hist' = Append(hist, heightmap')
    /\ UNCHANGED <<rng, halfEven, config, hm, k, straight, m, error, returned>>

\* ---------------------------------------------------------------- groups
\* mutant: the comparison is <=
NotAbove(x, sc, t) == x * t[2] <= t[1] * sc

\* x < t for the cell value x / sc and the threshold t
Below(x, sc, t) == x * t[2] < t[1] * sc

\* mutant: the overflow group is one past the last
LastGroupPlus(thresholds) == Len(thresholds) + 1

\* the group of the values no threshold exceeds
LastGroup(thresholds) == Len(thresholds)

\* the scan `for k,t in enumerate(thresholds)` from (1-based) position pos
RECURSIVE FindGroup(_, _, _, _)
FindGroup(x, sc, thresholds, pos) ==
    IF pos > Len(thresholds) THEN LastGroup(thresholds)
    ELSE IF Below(x, sc, thresholds[pos]) THEN pos - 1
         ELSE FindGroup(x, sc, thresholds, pos + 1)

\* GenerationStrategy.__calc_groups
CalcGroups ==
    /\ pc = "percentiles"
    /\ IF ~config.thresholds.has
       THEN /\ Fail("KeyError: 'thresholds'")
            /\ UNCHANGED <<heightmap, scale, hist>>
       ELSE IF config.thresholds.none
       THEN /\ Fail("Exception: The config parameter 'thresholds' must be set.")
            /\ UNCHANGED <<heightmap, scale, hist>>
       ELSE /\ heightmap' = [c \in DOMAIN heightmap |->
                                FindGroup(heightmap[c], scale, config.thresholds.val, 1)]
            /\ scale' = 1
            /\ pc' = "smooth"
            /\ hist' = Append(hist, heightmap')
            /\ error' = error
    /\ UNCHANGED <<rng, halfEven, config, hm, k, straight, m, returned>>

\* ---------------------------------------------------------------- erosion
\* weight of a surrounding cell and of the centre cell in __get_neighbors
SideWeight == 1

\* mutant: the centre weighs as much as a surrounding cell
CentreWeightAsSide == SideWeight

CentreWeight == 2

\* GenerationStrategy.__get_neighbors
GetNeighbors(pt, shape) ==
    LET x == pt[1]
        y == pt[2]
        w == shape[1]
        h == shape[2]
        neighbors ==
            << <<<<x-1, y>>, SideWeight>>, <<<<x-1, y-1>>, SideWeight>>, <<<<x-1, y+1>>, SideWeight>>,
               <<<<x, y>>, CentreWeight>>, <<<<x, y-1>>, SideWeight>>, <<<<x, y+1>>, SideWeight>>,
               <<<<x+1, y>>, SideWeight>>, <<<<x+1, y-1>>, SideWeight>>, <<<<x+1, y+1>>, SideWeight>> >>
        InField(n) == n[1][1] >= 0 /\ n[1][1] < w /\ n[1][2] >= 0 /\ n[1][2] < h
    IN  SelectSeq(neighbors, InField)

RECURSIVE SumSeq(_)
SumSeq(s) == IF s = << >> THEN 0 ELSE Head(s) + SumSeq(Tail(s))

\* round(n / d) for n >= 0, d > 0
Round(n, d) ==
    LET q == n \div d
        r == n % d
    IN  IF 2 * r < d THEN q
        ELSE IF 2 * r > d THEN q + 1
        ELSE IF halfEven /\ q % 2 = 0 THEN q
        ELSE q + 1

\* hm_copy[i][j] for the cell pt, read from field
SmoothCell(field, pt, shape) ==
    LET neighbors == GetNeighbors(pt, shape)
        vals == [n \in 1..Len(neighbors) |-> field[neighbors[n][1]] * neighbors[n][2]]
        sum_weights == SumSeq([n \in 1..Len(neighbors) |-> neighbors[n][2]])
    IN  Round(SumSeq(vals), sum_weights)

\* mutant: hm_copy is the heightmap itself (no np.copy), so the cells from
\* position i on are computed from cells already written in this round
RECURSIVE SmoothFrom(_, _, _)
SmoothFrom(field, i, shape) ==
    IF i >= shape[1] * shape[2] THEN field
    ELSE SmoothFrom([field EXCEPT ![CellAt(i, shape[2])] =
                        SmoothCell(field, CellAt(i, shape[2]), shape)], i + 1, shape)

SmoothFieldInPlace(field, shape) == SmoothFrom(field, 0, shape)

\* hm_copy after the loops over i and j: every cell is read from field, the
\* heightmap as it was when the round began
SmoothField(field, shape) ==
    [c \in DOMAIN field |-> SmoothCell(field, c, shape)]

\* one round of the loop `for m in range(self.config['erosion'])`
SmoothRound ==
    /\ pc = "smooth"
    /\ config.erosion.has
    /\ m < config.erosion.val
    /\ heightmap' = SmoothField(heightmap, <<config.width, config.height>>)
    /\ m' = m + 1
    /\ hist' = Append(hist, heightmap')
    /\ UNCHANGED <<rng, halfEven, pc, config, hm, k, straight, scale, error, returned>>

\* __smooth returns, and generate() with it
SmoothReturn ==
    /\ pc = "smooth"
    /\ config.erosion.has => m = config.erosion.val
    /\ pc' = "done"
    /\ UNCHANGED <<rng, halfEven, config, hm, k, straight, heightmap, scale, m, error, hist, returned>>

\* ---------------------------------------------------------------- one run
Next ==
    \/ Construct
    \/ RandomGenerateRaw
    \/ FaultStart
    \/ FaultIteration
    \/ FaultReturn
    \/ CalcPercentiles
    \/ CalcGroups
    \/ SmoothRound
    \/ SmoothReturn

Spec == Init /\ [][Next]_vars

\* ---------------------------------------------------------------- several runs
\* The caller keeps the outcome of a finished run and starts another one in the
\* same process.
NewRun ==
    /\ pc \in {"done", "failed"}
    /\ Len(returned) + 1 < MaxRuns
    /\ returned' = Append(returned,
                          [config |-> config, ok |-> (pc = "done"), heightmap |-> heightmap])
    /\ pc' = "new"
    /\ config' = MkConfig(<<1, 1>>, "random", Absent, Absent, AbsentList, Absent)
    /\ hm' = NoField
    /\ k' = 0
    /\ straight' = NoStraight
    /\ heightmap' = NoField
    /\ scale' = 1
    /\ m' = 0
    /\ error' = "none"
    /\ hist' = << >>
    /\ UNCHANGED <<rng, halfEven>>

ConstructRun ==
    /\ pc = "new"
    /\ \E cfg \in RunConfigs : New(cfg)

\* GenerationStrategy.__init__ of another strategy instance, whose config holds a
\* seed: np.random.seed(config['seed'])
OtherConstruct ==
    /\ pc \in {"new", "constructed"}
    /\ \E s \in 0..MaxSeed : rng' = Seeded(s)
    /\ UNCHANGED <<halfEven, pc, config, hm, k, straight, heightmap, scale, m, error, hist, returned>>

\* _generate_raw of another strategy instance draws from the generator
OtherGenerate ==
    /\ pc \in {"new", "constructed"}
    /\ rng.seeded
    /\ rng.pos < MaxPos
    /\ rng' = Advance(1)
    /\ UNCHANGED <<halfEven, pc, config, hm, k, straight, heightmap, scale, m, error, hist, returned>>

NextRuns ==
    \/ ConstructRun
    \/ RandomGenerateRaw
    \/ FaultStart
    \/ FaultIteration
    \/ FaultReturn
    \/ CalcPercentiles
    \/ CalcGroups
    \/ SmoothRound
    \/ SmoothReturn
    \/ NewRun
    \/ OtherConstruct
    \/ OtherGenerate

SpecRuns == Init /\ [][NextRuns]_vars

\* ---------------------------------------------------------------- claims
\* a 2 x 2 field [[a, b], [c, d]]
Quad(a, b, c, d) ==
    [cell \in Cells(2, 2) |->
        CASE cell = <<0, 0>> -> a
          [] cell = <<0, 1>> -> b
          [] cell = <<1, 0>> -> c
          [] OTHER -> d]

RECURSIVE SumOver(_, _)
SumOver(S, f) ==
    IF S = {} THEN 0
    ELSE LET c == CHOOSE x \in S : TRUE IN f[c] + SumOver(S \ {c}, f)

\* the cells of the field around c (c itself excluded)
Around(c, field) ==
    {n \in DOMAIN field :
        /\ n # c
        /\ n[1] - c[1] \in {-1, 0, 1}
        /\ n[2] - c[2] \in {-1, 0, 1}}

\* v is an integer nearest to total / d
Nearest(v, total, d) ==
    /\ 2 * (v * d - total) <= d
    /\ 2 * (total - v * d) <= d

\* field holds a group index in every cell of the configured width x height
GroupField(field) ==
    /\ DOMAIN field = Cells(config.width, config.height)
    /\ Cardinality(DOMAIN field) = config.width * config.height
    /\ \A c \in DOMAIN field : field[c] \in 0..Len(config.thresholds.val)

\* C1: after the Grouper and after every erosion round, and so in the field
\* generate() returns, the field has exactly width x height cells and every cell
\* is an integer k with 0 <= k <= len(thresholds).
FieldInRange ==
    /\ pc \in {"smooth", "done"} => (scale = 1 /\ GroupField(heightmap))
    /\ \A n \in 3..Len(hist) : GroupField(hist[n])

\* a returned field after two erosion rounds that holds the lowest and the
\* overflow group of a table of several thresholds
FieldInRangeWitness ==
    /\ pc = "done"
    /\ m >= 2
    /\ Len(config.thresholds.val) >= 2
    /\ \E c \in DOMAIN heightmap : heightmap[c] = 0
    /\ \E c \in DOMAIN heightmap : heightmap[c] = Len(config.thresholds.val)

\* C2: percentile normalization keeps the order and collapses ties: for every
\* pair of cells, raw v1 < v2 gives percentile(v1) <= percentile(v2), raw
\* v1 = v2 gives equal percentiles, and every percentile lies in (0, 1].
PercentilesOrdered ==
    /\ pc = "percentiles" => scale = config.width * config.height
    /\ Len(hist) >= 2 =>
          \A c1 \in DOMAIN hist[1], c2 \in DOMAIN hist[1] :
              /\ hist[1][c1] < hist[1][c2] => hist[2][c1] <= hist[2][c2]
              /\ hist[1][c1] = hist[1][c2] => hist[2][c1] = hist[2][c2]
              /\ 0 < hist[2][c1]
              /\ hist[2][c1] <= config.width * config.height

\* a normalized field with a tie and with two cells of different raw value
PercentilesOrderedWitness ==
    /\ Len(hist) >= 2
    /\ \E c1 \in DOMAIN hist[1], c2 \in DOMAIN hist[1] :
          c1 # c2 /\ hist[1][c1] = hist[1][c2] /\ hist[2][c1] = hist[2][c2]
    /\ \E c1 \in DOMAIN hist[1], c2 \in DOMAIN hist[1] :
          hist[1][c1] < hist[1][c2] /\ hist[2][c1] < hist[2][c2]

\* the scenario: raw field [[1,2],[2,3]], thresholds [0.3, 0.6, 1.0]
ScenarioThresholds == <<<<3, 10>>, <<6, 10>>, <<1, 1>>>>

InScenario ==
    /\ Len(hist) >= 2
    /\ hist[1] = Quad(1, 2, 2, 3)
    /\ config.thresholds = Given(ScenarioThresholds)

FirstExceeding(x, n, g, thresholds) ==
    /\ g \in 0..Len(thresholds)
    /\ \A j \in 1..g : ~(x * thresholds[j][2] < thresholds[j][1] * n)
    /\ g < Len(thresholds) => x * thresholds[g + 1][2] < thresholds[g + 1][1] * n

GroupIsFirstExceeding ==
    Len(hist) >= 3 =>
        \A c \in DOMAIN hist[2] :
            /\ FirstExceeding(hist[2][c], config.width * config.height, hist[3][c],
                              config.thresholds.val)
            /\ (config.thresholds.val = <<<<1, 2>>>>
                    /\ 2 * hist[2][c] = config.width * config.height) => hist[3][c] = 1

\* a grouped field with the thresholds [0.5] and a cell whose percentile is 0.5
GroupIsFirstExceedingWitness ==
    /\ Len(hist) >= 3
    /\ config.thresholds.val = <<<<1, 2>>>>
    /\ \E c \in DOMAIN hist[2] :
          2 * hist[2][c] = config.width * config.height /\ hist[3][c] = 1

\* C5: a run whose config holds a seed returns the field every earlier run of
\* the same config returned, whatever other instances were constructed or run
\* before or between its construction and its generate().
SeededRunsAgree ==
    \A i \in 1..Len(returned) :
        (pc = "done" /\ config.seed.has /\ returned[i].ok /\ returned[i].config = config)
            => heightmap = returned[i].heightmap

\* C6: without a 'thresholds' entry generate() fails in the Grouper with the
\* exception that names the missing parameter, and the field is as the
\* Normalizer left it.
MissingThresholdsIsConfigError ==
    (pc = "failed" /\ ~config.thresholds.has /\ Len(hist) = 2) =>
        /\ error = "Exception: The config parameter 'thresholds' must be set."
        /\ heightmap = hist[2]

\* the neighbourhood __get_neighbors gives the corner (0,0)
CornerNeighbors == GetNeighbors(<<0, 0>>, <<config.width, config.height>>)

CornerWeights == SumSeq([n \in 1..Len(CornerNeighbors) |-> CornerNeighbors[n][2]])

InCornerRound ==
    /\ config.width = 5
    /\ config.height = 5
    /\ Len(hist) >= 4

\* C7 as stated: in an erosion round on a 5 x 5 field the corner (0,0) is
\* averaged over 4 neighbours and the centre of weight 2, the divisor being 6.
CornerDivisorSix ==
    InCornerRound =>
        /\ Len(CornerNeighbors) = 4 + 1
        /\ CornerWeights = 6

\* C7 as amended: in an erosion round on a 5 x 5 field the corner (0,0) is
\* averaged over its 3 neighbours (0,1), (1,0), (1,1) and the centre of weight
\* 2, the divisor being 5; no cell outside the field adds to either.
CornerDivisorFive ==
    InCornerRound =>
        /\ {CornerNeighbors[n][1] : n \in 1..Len(CornerNeighbors)}
              = {<<0, 0>>, <<0, 1>>, <<1, 0>>, <<1, 1>>}
        /\ Len(CornerNeighbors) = 3 + 1
        /\ CornerWeights = 5
        /\ \A n \in 3..(Len(hist) - 1) :
              Nearest(hist[n + 1][<<0, 0>>],
                      2 * hist[n][<<0, 0>>] + hist[n][<<0, 1>>]
                          + hist[n][<<1, 0>>] + hist[n][<<1, 1>>],
                      5)

\* an erosion round on a 5 x 5 field whose corner differs from a neighbour
CornerWitness ==
    /\ InCornerRound
    /\ \E c \in {<<0, 1>>, <<1, 0>>, <<1, 1>>} : hist[3][c] # hist[3][<<0, 0>>]

\* C8: in the linear fault loop every cell is an integer in [0, k] after k
\* iterations, an iteration raises each cell by 0 or 1, and the raw field lies
\* in [0, n], all zero when iterations = 0.
FaultInBounds ==
    /\ pc = "fault" =>
          /\ k \in 0..config.iterations.val
          /\ DOMAIN hm = Cells(config.width, config.height)
          /\ \A c \in DOMAIN hm : hm[c] \in 0..k
    /\ (Len(hist) >= 1 /\ config.strategy = "linear-fault") =>
          \A c \in DOMAIN hist[1] :
              /\ hist[1][c] \in 0..config.iterations.val
              /\ config.iterations.val = 0 => hist[1][c] = 0

FaultStep ==
    (pc = "fault" /\ pc' = "fault") =>
        /\ k' = k + 1
        /\ DOMAIN hm' = DOMAIN hm
        /\ \A c \in DOMAIN hm : hm'[c] - hm[c] \in {0, 1}

FaultElevationBound == [](FaultInBounds) /\ [][FaultStep]_vars

\* a raw field of the most iterations with a cell every line raised and a cell
\* no line raised
FaultElevationWitness ==
    /\ pc = "raw"
    /\ config.strategy = "linear-fault"
    /\ config.iterations.val >= 3
    /\ \E c \in DOMAIN heightmap : heightmap[c] = config.iterations.val
    /\ \E c \in DOMAIN heightmap : heightmap[c] = 0

\* C9: in each erosion round the new value of every cell is the integer
\* nearest to (2 * old + sum of the old values of the cells around it that
\* lie in the field) / (2 + their number), old being the field at the start of
\* the round.
RoundFromSnapshot ==
    \A n \in 3..(Len(hist) - 1) :
        \A c \in DOMAIN hist[n] :
            Nearest(hist[n + 1][c],
                    2 * hist[n][c] + SumOver(Around(c, hist[n]), hist[n]),
                    2 + Cardinality(Around(c, hist[n])))

\* two erosion rounds, each of which changed the field
RoundFromSnapshotWitness ==
    /\ Len(hist) >= 5
    /\ hist[4] # hist[3]
    /\ hist[5] # hist[4]

\* C10: when __random_straight draws x1 = x2 the iteration goes on and
\* generate() does not fail.
EqualXContinues ==
    straight.x1 = straight.x2 => pc # "failed"
====
